---------------------------- MODULE Spec2Model ----------------------------
(***************************************************************************)
(* Joint probabilities of dependent binary events (src/functions.py).      *)
(*                                                                         *)
(* Every function of the module is pure, so a behaviour is a single call:   *)
(* Init draws a function family and its arguments from bounded grids, and  *)
(* the action of that family evaluates it and records the results.         *)
(*                                                                         *)
(* Numbers.  The code computes in IEEE doubles.  The model computes the    *)
(* same expressions exactly:                                               *)
(*   - a finite value is a normalised fraction n/d,                        *)
(*   - nan, inf and ninf are the IEEE special values, with the IEEE rules  *)
(*     for the arithmetic the code performs on them (x/0, 0*nan, ...),     *)
(*   - the square root of a fraction that is no perfect square is kept as  *)
(*     a surd a + c*sqrt(x), compared exactly by squaring.                 *)
(* Rounding error of the doubles is not modelled: the properties are the   *)
(* exact-arithmetic ones (the code's results agree with them up to         *)
(* floating precision).                                                    *)
(***************************************************************************)
EXTENDS Integers, Sequences, FiniteSets, TLC

VARIABLES pc, fn, args, out

vars == <<pc, fn, args, out>>

---------------------------------------------------------------------------
(* Bounds of the input grids.                                              *)

\* marginals of the kernel and bivariate calls are k/PDen, k in 0..PDen
PDen == 10
\* correlations are k/RDen, k in -RDen..RDen
RDen == 2
\* the kernel is also called with correlations up to RWide in magnitude
RWide == 2
\* marginals of the trivariate calls are k/TDen, k in 0..TDen
TDen == 2
\* r1 and r2 of the trivariate calls are k/TRDen, k in -TRDen..TRDen
TRDen == 1

---------------------------------------------------------------------------
(* Exact numbers.                                                          *)

Abs(i) == IF i < 0 THEN -i ELSE i

RECURSIVE GCD(_, _)
GCD(a, b) == IF b = 0 THEN a ELSE GCD(b, a % b)

\* the fraction n/d (d > 0) in lowest terms
Fin(n, d) ==
    LET g == GCD(Abs(n), d)
    IN  [k |-> "fin", n |-> n \div g, d |-> d \div g]

NaN == [k |-> "nan"]
PosInf == [k |-> "inf"]
NegInf == [k |-> "ninf"]
Zero == Fin(0, 1)
One == Fin(1, 1)

IsFin(v) == v.k = "fin"
IsSurd(v) == v.k = "surd"
IsNaN(v) == v.k = "nan"

\* a + c*sqrt(x), with x > 0 no perfect square and c # 0
Surd(a, c, x) == [k |-> "surd", a |-> a, c |-> c, x |-> x]

FinAdd(a, b) == Fin(a.n * b.d + b.n * a.d, a.d * b.d)

\* cancels across the two fractions before multiplying
FinMul(a, b) ==
    LET g1 == GCD(Abs(a.n), b.d)
        g2 == GCD(Abs(b.n), a.d)
    IN  [k |-> "fin",
         n |-> (a.n \div g1) * (b.n \div g2),
         d |-> (a.d \div g2) * (b.d \div g1)]

FinNeg(a) == [k |-> "fin", n |-> -a.n, d |-> a.d]

FinLeq(a, b) == a.n * b.d <= b.n * a.d

\* sign(t) * t^2, a strictly increasing function of t
SignedSquare(t) ==
    IF t.n < 0 THEN FinNeg(FinMul(t, t)) ELSE FinMul(t, t)

\* c*sqrt(x) <= t, decided by comparing the signed squares
SurdTermLeq(c, x, t) == FinLeq(FinMul(SignedSquare(c), x), SignedSquare(t))

RECURSIVE ISqrtIter(_, _, _)
ISqrtIter(n, lo, hi) ==
    IF lo >= hi THEN lo
    ELSE LET mid == (lo + hi + 1) \div 2
         IN  IF mid * mid <= n THEN ISqrtIter(n, mid, hi)
             ELSE ISqrtIter(n, lo, mid - 1)

\* floor of the square root of n >= 0
ISqrt(n) == ISqrtIter(n, 0, IF n < 46340 THEN n ELSE 46340)

IsSquare(n) == ISqrt(n) * ISqrt(n) = n

---------------------------------------------------------------------------
(* The arithmetic of the doubles, on exact values.  Python evaluates the   *)
(* operands of an expression and the arguments of a call once, before the  *)
(* operation: each operator binds its arguments to their values first.     *)

\* the value of a function of one entry: Bind([x \in {e} |-> body]) is body
\* with x bound to the value of e
Bind(f) == f[CHOOSE x \in DOMAIN f : TRUE]

Neg(v) ==
    Bind([x \in {v} |->
         CASE IsFin(x) -> FinNeg(x)
           [] IsNaN(x) -> NaN
           [] x.k = "inf" -> NegInf
           [] x.k = "ninf" -> PosInf
           [] IsSurd(x) -> Surd(FinNeg(x.a), FinNeg(x.c), x.x)])

\* a <= b; false when either is nan
Leq(a, b) ==
    \E x \in {a}, y \in {b} :
        CASE IsNaN(x) \/ IsNaN(y) -> FALSE
          [] x.k = "ninf" \/ y.k = "inf" -> TRUE
          [] x.k = "inf" \/ y.k = "ninf" -> FALSE
          [] IsFin(x) /\ IsFin(y) -> FinLeq(x, y)
          [] IsSurd(x) /\ IsFin(y) ->
                SurdTermLeq(x.c, x.x, FinAdd(y, FinNeg(x.a)))
          [] IsFin(x) /\ IsSurd(y) ->
                ~SurdTermLeq(y.c, y.x, FinAdd(x, FinNeg(y.a)))

\* the sign of a fraction or an infinity
Sign(v) ==
    CASE IsFin(v) -> (IF v.n > 0 THEN 1 ELSE IF v.n < 0 THEN -1 ELSE 0)
      [] v.k = "inf" -> 1
      [] v.k = "ninf" -> -1

Add(a, b) ==
    Bind([x \in {a}, y \in {b} |->
         CASE IsNaN(x) \/ IsNaN(y) -> NaN
           [] x.k = "inf" -> IF y.k = "ninf" THEN NaN ELSE PosInf
           [] x.k = "ninf" -> IF y.k = "inf" THEN NaN ELSE NegInf
           [] y.k \in {"inf", "ninf"} -> y
           [] IsFin(x) /\ IsFin(y) -> FinAdd(x, y)
           [] IsSurd(x) /\ IsFin(y) -> Surd(FinAdd(x.a, y), x.c, x.x)
           [] IsFin(x) /\ IsSurd(y) -> Surd(FinAdd(x, y.a), y.c, y.x)
           [] IsSurd(x) /\ IsSurd(y) /\ x.x = y.x ->
                 IF FinAdd(x.c, y.c).n = 0 THEN FinAdd(x.a, y.a)
                 ELSE Surd(FinAdd(x.a, y.a), FinAdd(x.c, y.c), x.x)])

Sub(a, b) == Add(a, Neg(b))

Mul(a, b) ==
    Bind([x \in {a}, y \in {b} |->
         CASE IsNaN(x) \/ IsNaN(y) -> NaN
           [] IsFin(x) /\ IsFin(y) -> FinMul(x, y)
           [] x.k \in {"inf", "ninf"} \/ y.k \in {"inf", "ninf"} ->
                 IF Sign(x) * Sign(y) = 0 THEN NaN
                 ELSE IF Sign(x) * Sign(y) > 0 THEN PosInf ELSE NegInf
           [] IsFin(x) /\ IsSurd(y) ->
                 IF x.n = 0 THEN Zero
                 ELSE Surd(FinMul(x, y.a), FinMul(x, y.c), y.x)
           [] IsSurd(x) /\ IsFin(y) ->
                 IF y.n = 0 THEN Zero
                 ELSE Surd(FinMul(y, x.a), FinMul(y, x.c), x.x)])

\* the divisors of the code are the non-negative p2 and q2: x/0 is x/(+0)
Div(a, b) ==
    Bind([x \in {a}, y \in {b} |->
         CASE IsNaN(x) \/ IsNaN(y) -> NaN
           [] IsFin(y) /\ y.n = 0 ->
                 IF Sign(x) = 0 THEN NaN
                 ELSE IF Sign(x) > 0 THEN PosInf ELSE NegInf
           [] IsFin(y) /\ y.n > 0 -> Mul(x, Fin(y.d, y.n))
           [] IsFin(y) /\ y.n < 0 -> Mul(x, Fin(-y.d, -y.n))
           [] y.k \in {"inf", "ninf"} ->
                 IF x.k \in {"inf", "ninf"} THEN NaN ELSE Zero])

np_sqrt(v) ==
    Bind([x \in {v} |->
         CASE IsNaN(x) -> NaN
           [] x.k = "ninf" -> NaN
           [] x.k = "inf" -> PosInf
           [] IsFin(x) ->
                 IF x.n < 0 THEN NaN
                 ELSE IF IsSquare(x.n) /\ IsSquare(x.d)
                      THEN Fin(ISqrt(x.n), ISqrt(x.d))
                      ELSE Surd(Zero, One, x)])

\* np.minimum, and np.min over a pair: nan propagates
np_minimum(a, b) ==
    Bind([x \in {a}, y \in {b} |->
         IF IsNaN(x) \/ IsNaN(y) THEN NaN ELSE IF Leq(x, y) THEN x ELSE y])

np_maximum(a, b) ==
    Bind([x \in {a}, y \in {b} |->
         IF IsNaN(x) \/ IsNaN(y) THEN NaN ELSE IF Leq(x, y) THEN y ELSE x])

\* np.clip(x, lo, hi) is minimum(maximum(x, lo), hi)
np_clip(x, lo, hi) == np_minimum(np_maximum(x, lo), hi)

\* 1/AtolInv is the absolute tolerance of np.isclose (atol = 1e-8)
AtolInv == 100000000

\* np.isclose(x, 0.0) for a finite x: |x - 0| <= atol + rtol * |0|
np_isclose_zero(x) ==
    \E v \in {x} : IsFin(v) /\ (v.n = 0 \/ v.d \div Abs(v.n) >= AtolInv)

\* np.where(cond, 0.0, v)
np_where_zero(cond, v) == IF cond THEN Zero ELSE v

---------------------------------------------------------------------------
(* src/functions.py                                                        *)

\* copula_clip with the lower bound left at 0
copula_clip_NoLowerBound(u1, u2, vec) ==
    Bind([upper \in {np_minimum(u1, u2)} |->
        np_clip(vec, Zero, upper)])

copula_clip(u1, u2, vec) ==
    Bind([upper \in {np_minimum(u1, u2)} |->
    Bind([lower \in {np_maximum(Sub(Add(u1, u2), One), Zero)} |->
        np_clip(vec, lower, upper)])])

\* cqq with the p1*p2 term of the raw estimate dropped
cqq_NoProductTerm(q1, q2, r) ==
    Bind([p1 \in {Sub(One, q1)}, p2 \in {Sub(One, q2)} |->
    Bind([return_vec \in {
            Add(Sub(Sub(One, p1), p2),
            Mul(r, np_sqrt(Mul(Mul(Mul(p1, p2), q1), q2))))} |->
        copula_clip(q1, q2, return_vec)])])

\* cqq returning the raw estimate, the clip left out
cqq_Unclipped(q1, q2, r) ==
    Bind([p1 \in {Sub(One, q1)}, p2 \in {Sub(One, q2)} |->
    Bind([return_vec \in {
            Add(Add(Sub(Sub(One, p1), p2), Mul(p1, p2)),
            Mul(r, np_sqrt(Mul(Mul(Mul(p1, p2), q1), q2))))} |->
        return_vec])])

\* np.clip(r, -1, 1) is computed and dropped: r is used as given
cqq(q1, q2, r) ==
    Bind([p1 \in {Sub(One, q1)}, p2 \in {Sub(One, q2)} |->
    Bind([return_vec \in {
            Add(Add(Sub(Sub(One, p1), p2), Mul(p1, p2)),
            Mul(r, np_sqrt(Mul(Mul(Mul(p1, p2), q1), q2))))} |->
        copula_clip(q1, q2, return_vec)])])

bivariate_00(p1, p2, r) ==
    Bind([q1 \in {Sub(One, p1)}, q2 \in {Sub(One, p2)} |->
    Bind([return_vec \in {cqq(q1, q2, r)} |->
        return_vec])])

bivariate_10(p1, p2, r) ==
    Bind([q1 \in {Sub(One, p1)}, q2 \in {Sub(One, p2)} |->
    Bind([return_vec \in {Sub(q2, cqq(q1, q2, r))} |->
        return_vec])])

bivariate_01(p1, p2, r) ==
    Bind([q1 \in {Sub(One, p1)}, q2 \in {Sub(One, p2)} |->
    Bind([return_vec \in {Sub(q1, cqq(q1, q2, r))} |->
        return_vec])])

\* bivariate_11 with the kernel term subtracted
bivariate_11_SignSlip(p1, p2, r) ==
    Bind([q1 \in {Sub(One, p1)}, q2 \in {Sub(One, p2)} |->
    Bind([return_vec \in {Sub(Sub(Sub(One, q1), q2), cqq(q1, q2, r))} |->
        return_vec])])

bivariate_11(p1, p2, r) ==
    Bind([q1 \in {Sub(One, p1)}, q2 \in {Sub(One, p2)} |->
    Bind([return_vec \in {Add(Sub(Sub(One, q1), q2), cqq(q1, q2, r))} |->
        return_vec])])

bivariate_any(p1, p2, r) == Sub(One, bivariate_00(p1, p2, r))

bivariate_all(p1, p2, r) == bivariate_11(p1, p2, r)

trivariate000(p1, p2, p3, r1, r2, r3, r4) ==
    Bind([q1 \in {Sub(One, p1)}, q2 \in {Sub(One, p2)},
          q3 \in {Sub(One, p3)} |->
    Bind([C12 \in {cqq(q1, q2, r1)}, C23 \in {cqq(q2, q3, r2)} |->
    Bind([q10 \in {Div(C12, q2)}, q30 \in {Div(C23, q2)} |->
    Bind([C130 \in {cqq(q10, q30, r3)} |->
    Bind([return_vec \in {
            Mul(q2, C130)} |->
        np_where_zero(np_isclose_zero(q2), return_vec)])])])])])

trivariate001(p1, p2, p3, r1, r2, r3, r4) ==
    Bind([q1 \in {Sub(One, p1)}, q2 \in {Sub(One, p2)},
          q3 \in {Sub(One, p3)} |->
    Bind([C12 \in {cqq(q1, q2, r1)}, C23 \in {cqq(q2, q3, r2)} |->
    Bind([q10 \in {Div(C12, q2)}, q30 \in {Div(C23, q2)} |->
    Bind([C130 \in {cqq(q10, q30, r3)} |->
    Bind([return_vec \in {
            Sub(C12, Mul(q2, C130))} |->
        np_where_zero(np_isclose_zero(q2), return_vec)])])])])])

trivariate010(p1, p2, p3, r1, r2, r3, r4) ==
    Bind([q1 \in {Sub(One, p1)}, q2 \in {Sub(One, p2)},
          q3 \in {Sub(One, p3)} |->
    Bind([C12 \in {cqq(q1, q2, r1)}, C23 \in {cqq(q2, q3, r2)} |->
    Bind([q11 \in {Div(Sub(q1, C12), p2)}, q31 \in {Div(Sub(q3, C23), p2)} |->
    Bind([C131 \in {cqq(q11, q31, r4)} |->
    Bind([return_vec \in {
            Mul(p2, C131)} |->
        np_where_zero(np_isclose_zero(p2), return_vec)])])])])])

trivariate011(p1, p2, p3, r1, r2, r3, r4) ==
    Bind([q1 \in {Sub(One, p1)}, q2 \in {Sub(One, p2)},
          q3 \in {Sub(One, p3)} |->
    Bind([C12 \in {cqq(q1, q2, r1)}, C23 \in {cqq(q2, q3, r2)} |->
    Bind([q11 \in {Div(Sub(q1, C12), p2)}, q31 \in {Div(Sub(q3, C23), p2)} |->
    Bind([C131 \in {cqq(q11, q31, r4)} |->
    Bind([return_vec \in {
            Sub(Sub(q1, C12), Mul(p2, C131))} |->
        np_where_zero(np_isclose_zero(p2), return_vec)])])])])])

trivariate100(p1, p2, p3, r1, r2, r3, r4) ==
    Bind([q1 \in {Sub(One, p1)}, q2 \in {Sub(One, p2)},
          q3 \in {Sub(One, p3)} |->
    Bind([C12 \in {cqq(q1, q2, r1)}, C23 \in {cqq(q2, q3, r2)} |->
    Bind([q10 \in {Div(C12, q2)}, q30 \in {Div(C23, q2)} |->
    Bind([C130 \in {cqq(q10, q30, r3)} |->
    Bind([return_vec \in {
            Sub(C23, Mul(q2, C130))} |->
        np_where_zero(np_isclose_zero(q2), return_vec)])])])])])

\* trivariate101 with the override tested on p2
trivariate101_GuardOnP2(p1, p2, p3, r1, r2, r3, r4) ==
    Bind([q1 \in {Sub(One, p1)}, q2 \in {Sub(One, p2)},
          q3 \in {Sub(One, p3)} |->
    Bind([C12 \in {cqq(q1, q2, r1)}, C23 \in {cqq(q2, q3, r2)} |->
    Bind([q10 \in {Div(C12, q2)}, q30 \in {Div(C23, q2)} |->
    Bind([C130 \in {cqq(q10, q30, r3)} |->
    Bind([return_vec \in {
            Add(Sub(Sub(q2, C23), C12), Mul(q2, C130))} |->
        np_where_zero(np_isclose_zero(p2), return_vec)])])])])])

trivariate101(p1, p2, p3, r1, r2, r3, r4) ==
    Bind([q1 \in {Sub(One, p1)}, q2 \in {Sub(One, p2)},
          q3 \in {Sub(One, p3)} |->
    Bind([C12 \in {cqq(q1, q2, r1)}, C23 \in {cqq(q2, q3, r2)} |->
    Bind([q10 \in {Div(C12, q2)}, q30 \in {Div(C23, q2)} |->
    Bind([C130 \in {cqq(q10, q30, r3)} |->
    Bind([return_vec \in {
            Add(Sub(Sub(q2, C23), C12), Mul(q2, C130))} |->
        np_where_zero(np_isclose_zero(q2), return_vec)])])])])])

\* trivariate110 with the override tested on p2
trivariate110_GuardOnP2(p1, p2, p3, r1, r2, r3, r4) ==
    Bind([q1 \in {Sub(One, p1)}, q2 \in {Sub(One, p2)},
          q3 \in {Sub(One, p3)} |->
    Bind([C12 \in {cqq(q1, q2, r1)}, C23 \in {cqq(q2, q3, r2)} |->
    Bind([q11 \in {Div(Sub(q1, C12), p2)}, q31 \in {Div(Sub(q3, C23), p2)} |->
    Bind([C131 \in {cqq(q11, q31, r4)} |->
    Bind([return_vec \in {
            Sub(Sub(q3, C23), Mul(p2, C131))} |->
        np_where_zero(np_isclose_zero(p2), return_vec)])])])])])

trivariate110(p1, p2, p3, r1, r2, r3, r4) ==
    Bind([q1 \in {Sub(One, p1)}, q2 \in {Sub(One, p2)},
          q3 \in {Sub(One, p3)} |->
    Bind([C12 \in {cqq(q1, q2, r1)}, C23 \in {cqq(q2, q3, r2)} |->
    Bind([q11 \in {Div(Sub(q1, C12), p2)}, q31 \in {Div(Sub(q3, C23), p2)} |->
    Bind([C131 \in {cqq(q11, q31, r4)} |->
    Bind([return_vec \in {
            Sub(Sub(q3, C23), Mul(p2, C131))} |->
        np_where_zero(np_isclose_zero(q2), return_vec)])])])])])

trivariate111(p1, p2, p3, r1, r2, r3, r4) ==
    Bind([q1 \in {Sub(One, p1)}, q2 \in {Sub(One, p2)},
          q3 \in {Sub(One, p3)} |->
    Bind([C12 \in {cqq(q1, q2, r1)}, C23 \in {cqq(q2, q3, r2)} |->
    Bind([q11 \in {Div(Sub(q1, C12), p2)}, q31 \in {Div(Sub(q3, C23), p2)} |->
    Bind([C131 \in {cqq(q11, q31, r4)} |->
    Bind([return_vec \in {
            Add(Add(Add(Sub(Sub(Sub(One, q1), q2), q3), C12), C23),
            Mul(p2, C131))} |->
        np_where_zero(np_isclose_zero(q2), return_vec)])])])])])

trivariate_any(p1, p2, p3, r1, r2, r3, r4) ==
    Bind([q1 \in {Sub(One, p1)}, q2 \in {Sub(One, p2)},
          q3 \in {Sub(One, p3)} |->
    Bind([C12 \in {cqq(q1, q2, r1)}, C23 \in {cqq(q2, q3, r2)} |->
    Bind([q10 \in {Div(C12, q2)}, q30 \in {Div(C23, q2)} |->
    Bind([C130 \in {cqq(q10, q30, r3)} |->
    Bind([return_vec \in {
            Sub(One, Mul(q2, C130))} |->
        np_where_zero(np_isclose_zero(q2), return_vec)])])])])])

---------------------------------------------------------------------------
(* Inputs.                                                                 *)

Marginals == {Fin(k, PDen) : k \in 0..PDen}
Correlations == {Fin(k, RDen) : k \in -RDen..RDen}
WideCorrelations == {Fin(k, RDen) : k \in -(RWide * RDen)..(RWide * RDen)}
\* candidates handed to copula_clip: far outside [0,1], and the infinities
Candidates ==
    {Fin(k, PDen) : k \in -(RWide * PDen)..(RWide * PDen)} \cup {PosInf, NegInf}

TriGrid == {Fin(k, TDen) : k \in 0..TDen}
TriCorrelations == {Fin(k, TRDen) : k \in -TRDen..TRDen}
\* r3 and r4: perfect negative, none, perfect positive
ConditionalCorrelations == {Neg(One), Zero, One}
\* the grid, and the scenario p1 = 0.3, p3 = 0.4 with p2 on the grid
TriMarginals ==
    (TriGrid \X TriGrid \X TriGrid)
        \cup {<<Fin(3, 10), p2, Fin(4, 10)>> : p2 \in TriGrid}

\* The trivariate functions feed one kernel's result into the next one's
\* square root.  A kernel result that is a surd would need a nested radical,
\* which the exact numbers do not have: the trivariate calls are made on the
\* inputs whose four kernel results are fractions, nan or infinite.
Representable(p1, p2, p3, r1, r2, r3, r4) ==
    Bind([q1 \in {Sub(One, p1)}, q2 \in {Sub(One, p2)},
          q3 \in {Sub(One, p3)} |->
    Bind([C12 \in {cqq(q1, q2, r1)}, C23 \in {cqq(q2, q3, r2)} |->
        /\ ~IsSurd(C12)
        /\ ~IsSurd(C23)
        /\ ~IsSurd(cqq(Div(C12, q2), Div(C23, q2), r3))
        /\ ~IsSurd(cqq(Div(Sub(q1, C12), p2), Div(Sub(q3, C23), p2), r4))])])

---------------------------------------------------------------------------
(* The calls.  A behaviour is one call: Init draws the function and its    *)
(* arguments, the action evaluates it.                                     *)

ClipInputs == Marginals \X Marginals \X Candidates
CqqInputs == Marginals \X Marginals \X WideCorrelations
BivariateInputs == Marginals \X Marginals \X Correlations
TrivariateInputs ==
    {<<m[1], m[2], m[3], r1, r2, r3, r4>> :
        m \in TriMarginals,
        r1 \in TriCorrelations, r2 \in TriCorrelations,
        r3 \in ConditionalCorrelations, r4 \in ConditionalCorrelations}

Init ==
    /\ pc = "call"
    /\ \/ fn = "copula_clip" /\ args \in ClipInputs
       \/ fn = "cqq" /\ args \in CqqInputs
       \/ fn = "bivariate" /\ args \in BivariateInputs
       \/ fn = "trivariate" /\ args \in TrivariateInputs
    /\ out = <<>>

CallCopulaClip ==
    /\ pc = "call"
    /\ fn = "copula_clip"
    /\ out' = copula_clip(args[1], args[2], args[3])
    /\ pc' = "done"
    /\ UNCHANGED <<fn, args>>

CallCqq ==
    /\ pc = "call"
    /\ fn = "cqq"
    /\ out' = cqq(args[1], args[2], args[3])
    /\ pc' = "done"
    /\ UNCHANGED <<fn, args>>

CallBivariate ==
    /\ pc = "call"
    /\ fn = "bivariate"
    /\ \E p1 \in {args[1]}, p2 \in {args[2]}, r \in {args[3]} :
          out' = [b00 |-> bivariate_00(p1, p2, r),
                  b10 |-> bivariate_10(p1, p2, r),
                  b01 |-> bivariate_01(p1, p2, r),
                  b11 |-> bivariate_11(p1, p2, r),
                  any |-> bivariate_any(p1, p2, r),
                  all |-> bivariate_all(p1, p2, r)]
    /\ pc' = "done"
    /\ UNCHANGED <<fn, args>>

CallTrivariate ==
    /\ pc = "call"
    /\ fn = "trivariate"
    /\ \E p1 \in {args[1]}, p2 \in {args[2]}, p3 \in {args[3]},
          r1 \in {args[4]}, r2 \in {args[5]}, r3 \in {args[6]},
          r4 \in {args[7]} :
          /\ Representable(p1, p2, p3, r1, r2, r3, r4)
          /\ out' = [t000 |-> trivariate000(p1, p2, p3, r1, r2, r3, r4),
                     t001 |-> trivariate001(p1, p2, p3, r1, r2, r3, r4),
                     t010 |-> trivariate010(p1, p2, p3, r1, r2, r3, r4),
                     t011 |-> trivariate011(p1, p2, p3, r1, r2, r3, r4),
                     t100 |-> trivariate100(p1, p2, p3, r1, r2, r3, r4),
                     t101 |-> trivariate101(p1, p2, p3, r1, r2, r3, r4),
                     t110 |-> trivariate110(p1, p2, p3, r1, r2, r3, r4),
                     t111 |-> trivariate111(p1, p2, p3, r1, r2, r3, r4),
                     any |-> trivariate_any(p1, p2, p3, r1, r2, r3, r4)]
    /\ pc' = "done"
    /\ UNCHANGED <<fn, args>>

Next ==
    \/ CallCopulaClip
    \/ CallCqq
    \/ CallBivariate
    \/ CallTrivariate

Spec == Init /\ [][Next]_vars

---------------------------------------------------------------------------
(* Properties.                                                             *)

Done(f) == pc = "done" /\ fn = f

\* a number, as opposed to nan
Defined(v) == ~IsNaN(v)

\* 0 <= v <= 1
InUnit(v) == Leq(Zero, v) /\ Leq(v, One)

\* max(u1 + u2 - 1, 0) <= v <= min(u1, u2)
InFrechetHoeffding(v, u1, u2) ==
    /\ Leq(Sub(Add(u1, u2), One), v)
    /\ Leq(Zero, v)
    /\ Leq(v, u1)
    /\ Leq(v, u2)

EightTermSum ==
    Add(Add(Add(Add(Add(Add(Add(out.t000, out.t001), out.t010), out.t011),
        out.t100), out.t101), out.t110), out.t111)

FourTermSum == Add(Add(Add(out.b00, out.b01), out.b10), out.b11)

\* C1: the eight trivariate outcome terms of one argument list sum to 1,
\* for every marginal in [0,1], p2 = 0 and p2 = 1 included.
C1_TrivariatePartition == Done("trivariate") => EightTermSum = One

\* C2: the four bivariate outcome terms of one (p1, p2, r) sum to 1.
C2_BivariatePartition == Done("bivariate") => FourTermSum = One

\* a correlated pair whose kernel value is strictly inside the clip interval
C2_Witness ==
    /\ Done("bivariate")
    /\ args[3] = Fin(1, 2)
    /\ IsSurd(out.b00)
    /\ FourTermSum = One

\* C3: cqq(q1, q2, r) with r in [-1,1] lies in the Frechet-Hoeffding interval
\* [max(q1+q2-1, 0), min(q1, q2)], hence in [0,1]; copula_clip(u1, u2, v) lies
\* in that interval of u1, u2 for every candidate v, however extreme.
C3_KernelBounds ==
    /\ (Done("cqq") /\ Leq(Neg(One), args[3]) /\ Leq(args[3], One)) =>
          InFrechetHoeffding(out, args[1], args[2]) /\ InUnit(out)
    /\ Done("copula_clip") =>
          InFrechetHoeffding(out, args[1], args[2]) /\ InUnit(out)

\* perfect negative correlation, raw estimate below a positive lower bound
C3_Witness ==
    /\ Done("cqq")
    /\ args[3] = Neg(One)
    /\ ~Leq(Sub(Add(args[1], args[2]), One), Zero)
    /\ out = Sub(Add(args[1], args[2]), One)

\* C4: every value a joint-probability function returns is a defined number
\* in [0,1], p2 = 0 and p2 = 1 included.
C4_JointProbabilityRange ==
    /\ Done("bivariate") =>
          \A v \in {out.b00, out.b01, out.b10, out.b11, out.any, out.all} :
              Defined(v) /\ InUnit(v)
    /\ Done("trivariate") =>
          \A v \in {out.t000, out.t001, out.t010, out.t011, out.t100,
                    out.t101, out.t110, out.t111, out.any} :
              Defined(v) /\ InUnit(v)

\* C5: with zero correlation cqq(q1, q2, 0) = q1*q2, so that
\* bivariate_00(p1, p2, 0) = (1-p1)*(1-p2) and bivariate_11(p1, p2, 0) = p1*p2;
\* p1 = 0.2, p2 = 0.3 gives 0.56 and 0.06.
C5_IndependenceReduction ==
    /\ (Done("cqq") /\ args[3] = Zero) => out = Mul(args[1], args[2])
    /\ (Done("bivariate") /\ args[3] = Zero) =>
          /\ out.b00 = Mul(Sub(One, args[1]), Sub(One, args[2]))
          /\ out.b11 = Mul(args[1], args[2])
    /\ (Done("bivariate") /\ args = <<Fin(2, 10), Fin(3, 10), Zero>>) =>
          /\ out.b00 = Fin(56, 100)
          /\ out.b11 = Fin(6, 100)

\* the independent pair p1 = 0.2, p2 = 0.3
C5_Witness ==
    /\ Done("bivariate")
    /\ args = <<Fin(2, 10), Fin(3, 10), Zero>>
    /\ out.b00 = Fin(56, 100)
    /\ out.b11 = Fin(6, 100)

\* the arguments p1 = 0.3, p3 = 0.4 of the degenerate event-2 scenario
IsScenario == args[1] = Fin(3, 10) /\ args[3] = Fin(4, 10)

OutcomesWithoutEvent2AreZero ==
    /\ out.t000 = Zero
    /\ out.t100 = Zero
    /\ out.t101 = Zero
    /\ out.t001 = Zero

\* C6 as stated: with p1 = 0.3, p2 = 0.0, p3 = 0.4 and any correlations,
\* trivariate000, trivariate100, trivariate101 and trivariate001 are 0.
C6_ScenarioP2Zero ==
    (Done("trivariate") /\ IsScenario /\ args[2] = Zero) =>
        OutcomesWithoutEvent2AreZero

\* C6 amended: with p1 = 0.3, p2 = 1.0, p3 = 0.4 (q2 = 0) and any
\* correlations, trivariate000, trivariate100, trivariate101 and
\* trivariate001 are 0.
C6_ScenarioP2One ==
    (Done("trivariate") /\ IsScenario /\ args[2] = One) =>
        OutcomesWithoutEvent2AreZero

C6_Witness ==
    /\ Done("trivariate")
    /\ IsScenario
    /\ args[2] = One
    /\ args[6] = One
    /\ OutcomesWithoutEvent2AreZero

\* C7: the four outcomes whose formula uses C131 (010, 011, 110, 111) are
\* exactly 0 when p2 is 0.
C7_BranchBZeroOverride ==
    (Done("trivariate") /\ args[2] = Zero) =>
        /\ out.t010 = Zero
        /\ out.t011 = Zero
        /\ out.t110 = Zero
        /\ out.t111 = Zero

\* C8 as stated: trivariate011 and trivariate110 are 0 whenever q2 = 1 - p2
\* is 0, and trivariate010 is 0 whenever p2 is 0.
C8_GuardAsymmetryAsStated ==
    /\ (Done("trivariate") /\ args[2] = One) =>
          out.t011 = Zero /\ out.t110 = Zero
    /\ (Done("trivariate") /\ args[2] = Zero) => out.t010 = Zero

\* C8 amended: trivariate110 and trivariate111 are 0 whenever q2 = 1 - p2
\* is 0, and trivariate010 and trivariate011 are 0 whenever p2 is 0.
C8_GuardAsymmetry ==
    /\ (Done("trivariate") /\ args[2] = One) =>
          out.t110 = Zero /\ out.t111 = Zero
    /\ (Done("trivariate") /\ args[2] = Zero) =>
          out.t010 = Zero /\ out.t011 = Zero

\* event 2 certain, event 1 uncertain: 110 is overridden although 011 is not
C8_Witness ==
    /\ Done("trivariate")
    /\ args[2] = One
    /\ args[1] = Fin(1, 2)
    /\ out.t110 = Zero
    /\ out.t011 # Zero

\* C9: trivariate_any is 1 - trivariate000 on the same arguments, p2 = 1
\* included.
C9_AnyIsComplementOfNone ==
    Done("trivariate") => out.any = Sub(One, out.t000)

\* np.clip(r, -1, 1)
ClampedCorrelation(r) == np_clip(r, Neg(One), One)

\* C10: for every r, |r| > 1 included, cqq(q1, q2, r) is
\* cqq(q1, q2, clamp(r, -1, 1)): the clip absorbs the excess.
C10_DiscardedClampHarmless ==
    Done("cqq") => out = cqq(args[1], args[2], ClampedCorrelation(args[3]))

\* a correlation above 1 on two uncertain events
C10_Witness ==
    /\ Done("cqq")
    /\ Leq(Fin(3, 2), args[3])
    /\ args[1] \notin {Zero, One}
    /\ args[2] \notin {Zero, One}
    /\ args[1] # args[2]
    /\ Leq(out, args[1])
    /\ Leq(out, args[2])
    /\ out \in {args[1], args[2]}

============================================================================
